---------------------------- MODULE Spec2Model ----------------------------
(***************************************************************************)
(* Telemetry and command client of the SWIR camera control GUI (App.tsx,   *)
(* the version that keeps the high-frequency counters in refs).            *)
(*                                                                         *)
(* The model follows the App component: its React state and refs are the   *)
(* variables, every event handler is one action.  The browser side of the  *)
(* WebSocket API (readyState, the order of the error and close events, the *)
(* timer queue) is the environment.                                        *)
(***************************************************************************)
EXTENDS Integers, Sequences, FiniteSets, TLC

(***************************************************************************)
(* Bounds of the model and program constants.                              *)
(***************************************************************************)
\* What the environment may do to the client in one run: the number of
\* inbound payloads, command-handler invocations and close events that reach
\* the close handler, taken together.
MaxStimuli == 3

\* The same for the runs that follow the telemetry (SpecThrottle,
\* SpecRecording, SpecDiagnostics, SpecInfo): payloads, starts of a
\* recording, dismissals of the error notice and ticks of the 1 Hz interval,
\* taken together.
MaxEvents == 5

\* The clock is followed in steps of tens of milliseconds up to MaxClock;
\* beyond that it moves from one due time of a timer to the next.
MaxClock == 300

RECONNECT_DELAY == 5000       \* setTimeout(connect, 5000)
JUST_CONNECTED_DELAY == 800   \* setTimeout(() => setJustConnected(false), 800)
BIAS_DELAY == 100             \* setTimeout in handlePower
LOG_KEEP == 10                \* prev.slice(-10)
ABNORMAL_CLOSURE == 1006      \* event.code === 1006
TICK_PERIOD == 1000           \* setInterval(..., 1000)

(***************************************************************************)
(* JavaScript values.  Every value is a record of the same shape so that   *)
(* values of different JavaScript types can be compared: t is the type,    *)
(* s the text of a string (a sequence of chunks; strings that are case-    *)
(* converted are written one character per chunk), n a number or the truth *)
(* value of a boolean, a the items of an array.                            *)
(***************************************************************************)
Undefined == [t |-> "undefined", s |-> <<>>, n |-> 0, a |-> <<>>]
JsNull == [t |-> "null", s |-> <<>>, n |-> 0, a |-> <<>>]
Str(chunks) == [t |-> "string", s |-> chunks, n |-> 0, a |-> <<>>]
Num(k) == [t |-> "number", s |-> <<>>, n |-> k, a |-> <<>>]
Bool(b) == [t |-> "boolean", s |-> <<>>, n |-> IF b THEN 1 ELSE 0, a |-> <<>>]
Arr(items) == [t |-> "array", s |-> <<>>, n |-> 0, a |-> items]

\* ToBoolean: undefined, null, '', 0 and false are falsy; arrays are truthy.
Truthy(v) ==
    CASE v.t = "string" -> v.s # <<>>
      [] v.t = "number" -> v.n # 0
      [] v.t = "boolean" -> v.n = 1
      [] v.t = "array" -> TRUE
      [] OTHER -> FALSE

\* a || b
OrElse(a, b) == IF Truthy(a) THEN a ELSE b

Digits == <<"0", "1", "2", "3", "4", "5", "6", "7", "8", "9">>

RECURSIVE NatToString(_)
NatToString(k) ==
    IF k < 10 THEN <<Digits[k + 1]>>
    ELSE NatToString(k \div 10) \o <<Digits[(k % 10) + 1]>>

\* Numbers are kept in tenths (0.1 is 1, 2.0 is 20); Number::toString drops a
\* zero fraction.
NumberToString(k) ==
    IF k % 10 = 0 THEN NatToString(k \div 10)
    ELSE NatToString(k \div 10) \o <<".">> \o NatToString(k % 10)

\* The text a template literal `${v}` produces.
TemplateText(v) ==
    CASE v.t = "undefined" -> <<"undefined">>
      [] v.t = "null" -> <<"null">>
      [] v.t = "string" -> v.s
      [] v.t = "number" -> NumberToString(v.n)
      [] v.t = "boolean" -> IF v.n = 1 THEN <<"true">> ELSE <<"false">>
      [] OTHER -> <<"[array]">>

LowerLetters == <<"a", "b", "c", "d", "e", "f", "g", "h", "i", "j", "k", "l", "m",
                  "n", "o", "p", "q", "r", "s", "t", "u", "v", "w", "x", "y", "z">>
UpperLetters == <<"A", "B", "C", "D", "E", "F", "G", "H", "I", "J", "K", "L", "M",
                  "N", "O", "P", "Q", "R", "S", "T", "U", "V", "W", "X", "Y", "Z">>

UpperChar(c) ==
    IF \E i \in 1..Len(LowerLetters) : LowerLetters[i] = c
    THEN UpperLetters[CHOOSE i \in 1..Len(LowerLetters) : LowerLetters[i] = c]
    ELSE c

\* String.prototype.toUpperCase on a string written one character per chunk.
toUpperCase(s) == [i \in 1..Len(s) |-> UpperChar(s[i])]

(***************************************************************************)
(* type CameraStatus, type WsConnectionStatus, type ImageSourceType.       *)
(***************************************************************************)
POWERED_OFF == <<"P", "O", "W", "E", "R", "E", "D", "_", "O", "F", "F">>
IDLE == <<"I", "D", "L", "E">>
STREAMING == <<"S", "T", "R", "E", "A", "M", "I", "N", "G">>
CameraStatus == {POWERED_OFF, IDLE, STREAMING}

WsConnectionStatus == {"DISCONNECTED", "CONNECTED", "CONNECTING"}

\* WebSocket.readyState
ReadyState == {"CONNECTING", "OPEN", "CLOSING", "CLOSED"}

NoSocket == 0    \* websocket.current === null

VARIABLES
    \* React state of App
    lastCommand, logs, cameraStatus, wsStatus, imageSrc, imageSourceType,
    justConnected, serverError, targetFrameRate, nucEnabled, dacVoltages,
    histogramData, imageStats, cameraTemperature, cameraIntegrationTime,
    frameRate, diagnostics, isRecording, recordedFrames, recordingFrameCount,
    \* refs of App
    websocket, frameCount, isRecordingRef, recordedFramesRef,
    lastHistogramUpdate, lastStatsUpdate,
    totalMessagesRef, framesReceivedRef, statusUpdatesRef, lastRawMessageRef,
    \* the browser: the WebSocket objects created so far, the timer queue,
    \* performance.now(), whether the component is mounted, and the 1 Hz
    \* interval (whether it is set, and when it is due next)
    sockets, timers, now, phase, interval,
    \* observation: the number of payloads, command-handler invocations and
    \* handled close events so far
    stimuli,
    \* observation: for every image frame that ws.onmessage has handled, the
    \* time it arrived, its payload, whether setHistogramData and
    \* setImageStats were called for it, whether the interface showed a
    \* recording in progress, and the number of the recording session
    arrivals,
    \* observation: the number of times a recording was started
    starts

captureState == <<frameRate, diagnostics, isRecording, recordedFrames,
                  recordingFrameCount>>
appState == <<lastCommand, logs, cameraStatus, wsStatus, imageSrc, imageSourceType,
              justConnected, serverError, targetFrameRate, nucEnabled, dacVoltages,
              histogramData, imageStats, cameraTemperature, cameraIntegrationTime,
              captureState>>
appRefs == <<websocket, frameCount, isRecordingRef, recordedFramesRef,
             lastHistogramUpdate, lastStatsUpdate,
             totalMessagesRef, framesReceivedRef, statusUpdatesRef, lastRawMessageRef>>
browser == <<sockets, timers, now, phase, interval>>
vars == <<appState, appRefs, browser, stimuli, arrivals, starts>>

telemetryState == <<imageSrc, targetFrameRate, histogramData, imageStats,
                    cameraTemperature, cameraIntegrationTime>>
telemetryRefs == <<frameCount, isRecordingRef, recordedFramesRef,
                   lastHistogramUpdate, lastStatsUpdate>>
diagnosticRefs == <<totalMessagesRef, framesReceivedRef, statusUpdatesRef,
                    lastRawMessageRef>>


(***************************************************************************)
(* Message Codec, outbound side: JSON.stringify of the values the client   *)
(* sends.  An object is a sequence of <<key, value>> pairs in insertion    *)
(* order.                                                                  *)
(***************************************************************************)
JsonValue(v) ==
    CASE v.t = "string" -> <<"\"">> \o v.s \o <<"\"">>
      [] v.t = "number" -> NumberToString(v.n)
      [] v.t = "boolean" -> IF v.n = 1 THEN <<"true">> ELSE <<"false">>
      [] OTHER -> <<"null">>

RECURSIVE JsonMembers(_)
JsonMembers(pairs) ==
    IF pairs = <<>> THEN <<>>
    ELSE <<"\"", pairs[1][1], "\"", ":">> \o JsonValue(pairs[1][2])
         \o (IF Len(pairs) > 1 THEN <<",">> ELSE <<>>)
         \o JsonMembers(Tail(pairs))

JsonObject(pairs) == <<"{">> \o JsonMembers(pairs) \o <<"}">>

\* JSON.stringify({ command, params })
EncodeEnvelope(command, params) ==
    <<"{", "\"", "command", "\"", ":", "\"", command, "\"", ",",
      "\"", "params", "\"", ":">> \o JsonObject(params) \o <<"}">>

(***************************************************************************)
(* addLog: the log keeps the last LOG_KEEP lines and the new one.  A line  *)
(* is its prefix and its message; the wall-clock time in front of it is    *)
(* left out.                                                               *)
(***************************************************************************)
Slice(l, keep) == IF Len(l) <= keep THEN l ELSE SubSeq(l, Len(l) - keep + 1, Len(l))

addLog(l, message, source) ==
    Append(Slice(l, LOG_KEEP),
           [prefix |-> IF source = "server" THEN "[Server]" ELSE "[App]",
            message |-> message])

CannotSendNotice == <<"Cannot send command: WebSocket is not connected.">>

(***************************************************************************)
(* sendCommand.  It reads websocket.current and writes serverError, the    *)
(* socket (send), lastCommand and the log; f is a record of these four,    *)
(* so that handlers that call it several times can chain the calls.        *)
(***************************************************************************)
Facade == [serverError |-> serverError, sockets |-> sockets,
           lastCommand |-> lastCommand, logs |-> logs]

IsOpen(f) == websocket # NoSocket /\ f.sockets[websocket].readyState = "OPEN"

\* sendCommand without the readyState test
sendCommand_unguarded(f, command, params) ==
    IF websocket # NoSocket
    THEN [serverError |-> JsNull,
          sockets |-> [f.sockets EXCEPT ![websocket].sent =
                          Append(@, EncodeEnvelope(command, params))],
          lastCommand |-> <<command, "(">>
                          \o (IF Len(params) > 0 THEN JsonObject(params) ELSE <<>>)
                          \o <<")">>,
          logs |-> f.logs]
    ELSE [f EXCEPT !.logs = addLog(f.logs, CannotSendNotice, "app")]

sendCommand(f, command, params) ==
    IF IsOpen(f)
    THEN [serverError |-> JsNull,
          sockets |-> [f.sockets EXCEPT ![websocket].sent =
                          Append(@, EncodeEnvelope(command, params))],
          lastCommand |-> <<command, "(">>
                          \o (IF Len(params) > 0 THEN JsonObject(params) ELSE <<>>)
                          \o <<")">>,
          logs |-> f.logs]
    ELSE [f EXCEPT !.logs = addLog(f.logs, CannotSendNotice, "app")]

SetFacade(f) ==
    /\ serverError' = f.serverError
    /\ sockets' = f.sockets
    /\ lastCommand' = f.lastCommand
    /\ logs' = f.logs

\* A WebSocket as the browser sees it: its readyState, whether ws.onclose is
\* still attached, the texts passed to send(), the payloads delivered to
\* ws.onmessage, and the time of its close event (-1 before it).
NewSocket == [readyState |-> "CONNECTING", onclose |-> TRUE, sent |-> <<>>,
              delivered |-> <<>>, closedAt |-> -1]

Timer(callback, delay) == [callback |-> callback, due |-> now + delay]

(***************************************************************************)
(* connect(): a new WebSocket with the four handlers, kept in              *)
(* websocket.current.  l and ss are the log and the sockets as the caller  *)
(* leaves them.                                                            *)
(***************************************************************************)
\* connect() that does not store the socket in websocket.current
connect_noRef(l, ss) ==
    /\ wsStatus' = "CONNECTING"
    /\ logs' = addLog(l, <<"Connecting to server at ", "ws://localhost:8765", "...">>, "app")
    /\ sockets' = Append(ss, NewSocket)
    /\ websocket' = websocket

\* connect() that leaves wsStatus as it is
connect_noStatus(l, ss) ==
    /\ wsStatus' = wsStatus
    /\ logs' = addLog(l, <<"Connecting to server at ", "ws://localhost:8765", "...">>, "app")
    /\ sockets' = Append(ss, NewSocket)
    /\ websocket' = Len(ss) + 1

connect(l, ss) ==
    /\ wsStatus' = "CONNECTING"
    /\ logs' = addLog(l, <<"Connecting to server at ", "ws://localhost:8765", "...">>, "app")
    /\ sockets' = Append(ss, NewSocket)
    /\ websocket' = Len(ss) + 1

(***************************************************************************)
(* ws.onopen.  The browser has set readyState to OPEN (ss) before the      *)
(* handler runs.                                                           *)
(***************************************************************************)
onopen(ss) ==
    LET f0 == [Facade EXCEPT
                 !.sockets = ss,
                 !.logs = addLog(logs, <<"Successfully connected to the WebSocket server.">>, "app")]
        f1 == sendCommand(f0, "get_status", <<>>)
        f2 == [f1 EXCEPT
                 !.logs = addLog(f1.logs, <<"Requesting initial camera status...">>, "app")]
    IN  /\ wsStatus' = "CONNECTED"
        /\ justConnected' = TRUE
        /\ timers' = Append(timers, Timer("clearJustConnected", JUST_CONNECTED_DELAY))
        /\ SetFacade(f2)

(***************************************************************************)
(* ws.onclose, for a close event with the given code and reason; l is the  *)
(* log as an error handler that ran just before leaves it.                 *)
(***************************************************************************)
CloseReason(code, reason) ==
    IF code = ABNORMAL_CLOSURE
    THEN <<"Connection failed. Please ensure the Python server is running.">>
    ELSE IF Truthy(reason)
    THEN <<"Reason: ">> \o TemplateText(reason) \o <<" (Code: ">> \o NatToString(code) \o <<")">>
    ELSE <<"Connection closed unexpectedly (Code: ">> \o NatToString(code) \o <<")">>

\* ws.onclose that reconnects without a delay
onclose_noDelay(code, reason, l) ==
    /\ wsStatus' = "DISCONNECTED"
    /\ cameraStatus' = POWERED_OFF
    /\ imageSourceType' = Str(<<"none">>)
    /\ logs' = addLog(l, CloseReason(code, reason) \o <<" Reconnecting in 5 seconds...">>, "app")
    /\ timers' = Append(timers, Timer("connect", 0))

\* ws.onclose that schedules the reconnect twice
onclose_twice(code, reason, l) ==
    /\ wsStatus' = "DISCONNECTED"
    /\ cameraStatus' = POWERED_OFF
    /\ imageSourceType' = Str(<<"none">>)
    /\ logs' = addLog(l, CloseReason(code, reason) \o <<" Reconnecting in 5 seconds...">>, "app")
    /\ timers' = timers \o <<Timer("connect", RECONNECT_DELAY), Timer("connect", RECONNECT_DELAY)>>

\* ws.onclose that gives up after an abnormal closure
onclose_noRetry(code, reason, l) ==
    /\ wsStatus' = "DISCONNECTED"
    /\ cameraStatus' = POWERED_OFF
    /\ imageSourceType' = Str(<<"none">>)
    /\ logs' = addLog(l, CloseReason(code, reason) \o <<" Reconnecting in 5 seconds...">>, "app")
    /\ timers' = IF code = ABNORMAL_CLOSURE THEN timers
                  ELSE Append(timers, Timer("connect", RECONNECT_DELAY))

\* ws.onclose that keeps the camera status
onclose_noReset(code, reason, l) ==
    /\ wsStatus' = "DISCONNECTED"
    /\ cameraStatus' = cameraStatus
    /\ imageSourceType' = Str(<<"none">>)
    /\ logs' = addLog(l, CloseReason(code, reason) \o <<" Reconnecting in 5 seconds...">>, "app")
    /\ timers' = Append(timers, Timer("connect", RECONNECT_DELAY))

onclose(code, reason, l) ==
    /\ wsStatus' = "DISCONNECTED"
    /\ cameraStatus' = POWERED_OFF
    /\ imageSourceType' = Str(<<"none">>)
    /\ logs' = addLog(l, CloseReason(code, reason) \o <<" Reconnecting in 5 seconds...">>, "app")
    /\ timers' = Append(timers, Timer("connect", RECONNECT_DELAY))

\* ws.onerror
onerror(l) ==
    addLog(l, <<"WebSocket connection error. The server may be unreachable.">>, "app")

(***************************************************************************)
(* The cleanup of the connection effect: detach the close handler of       *)
(* websocket.current, then close() it.  close() moves a connecting or open *)
(* socket to CLOSING and does nothing to a closing or closed one.          *)
(***************************************************************************)
CloseCall(sock) ==
    IF sock.readyState \in {"CONNECTING", "OPEN"}
    THEN [sock EXCEPT !.readyState = "CLOSING"]
    ELSE sock

\* the cleanup without `websocket.current.onclose = null`
cleanup_keepHandler(ss) ==
    IF websocket # NoSocket
    THEN [ss EXCEPT ![websocket] = CloseCall(@)]
    ELSE ss

cleanup(ss) ==
    IF websocket # NoSocket
    THEN [ss EXCEPT ![websocket] = CloseCall([@ EXCEPT !.onclose = FALSE])]
    ELSE ss

(***************************************************************************)
(* Inbound payloads.  A payload is the text on the wire (data) and what    *)
(* JSON.parse makes of it (json); parsing a malformed text throws.  The    *)
(* fields a message does not carry are Undefined.                          *)
(***************************************************************************)
NoInfo == [t |-> "undefined", temperature |-> Undefined,
           integration_time_ms |-> Undefined, frame_rate |-> Undefined]
Info(temperature, integration, rate) ==
    [t |-> "object", temperature |-> temperature,
     integration_time_ms |-> integration, frame_rate |-> rate]

NoStats == [t |-> "undefined", min |-> 0, max |-> 0, mean |-> 0]
NullStats == [t |-> "null", min |-> 0, max |-> 0, mean |-> 0]
Stats(lo, hi, mean) == [t |-> "object", min |-> lo, max |-> hi, mean |-> mean]

Message(type) ==
    [wellFormed |-> TRUE, type |-> type, message |-> Undefined, status |-> Undefined,
     camera_info |-> NoInfo, data |-> Undefined, source |-> Undefined,
     histogram |-> Undefined, stats |-> NoStats]

Payload(text, json) == [data |-> Str(<<text>>), json |-> json]

TYPE_LOG == Str(<<"log">>)
TYPE_STATUS_UPDATE == Str(<<"status_update">>)
TYPE_IMAGE_FRAME == Str(<<"image_frame">>)
TYPE_ERROR == Str(<<"error">>)

HISTOGRAM_INTERVAL == 100     \* now - lastHistogramUpdate.current > 100
STATS_INTERVAL == 100         \* now - lastStatsUpdate.current > 100

(***************************************************************************)
(* ws.onmessage, case 'status_update'.                                     *)
(***************************************************************************)
\* (message.status || '')
statusOrEmpty(message) == OrElse(message.status, Str(<<>>))

\* .toUpperCase() is a TypeError on anything but a string
statusThrows(message) == statusOrEmpty(message).t # "string"

newStatus(message) == toUpperCase(statusOrEmpty(message).s)

\* ['POWERED_OFF', 'IDLE', 'STREAMING'].includes(newStatus)
isKnownStatus(status) == status \in {POWERED_OFF, IDLE, STREAMING}

\* the status applied without the includes() test
setCameraStatus_unchecked(current, message) == newStatus(message)

\* the camera status after a status_update that did not throw
setCameraStatus(current, message) ==
    IF isKnownStatus(newStatus(message)) THEN newStatus(message) ELSE current

statusLog(message) ==
    IF isKnownStatus(newStatus(message))
    THEN <<"Camera status updated to: ">> \o newStatus(message)
    ELSE <<"Received unknown camera status: '">> \o TemplateText(message.status) \o <<"'">>

(***************************************************************************)
(* ws.onmessage, case 'image_frame': the throttles.                        *)
(***************************************************************************)
\* the histogram test without the elapsed-time condition
histogramPasses_unthrottled(message) == Truthy(message.histogram)

\* the histogram test that passes at the interval itself
histogramPasses_inclusive(message) ==
    /\ Truthy(message.histogram)
    /\ now - lastHistogramUpdate >= HISTOGRAM_INTERVAL

\* message.histogram && now - lastHistogramUpdate.current > 100
histogramPasses(message) ==
    /\ Truthy(message.histogram)
    /\ now - lastHistogramUpdate > HISTOGRAM_INTERVAL

\* a display that shows a frame only when its histogram is shown
latestFrame_throttled(message, frameDataUrl) ==
    IF histogramPasses(message) THEN frameDataUrl ELSE imageSrc

\* setImageSrc(frameDataUrl), for every frame
latestFrame(message, frameDataUrl) == frameDataUrl

\* message.stats && now - lastStatsUpdate.current > 100
statsPasses(message) ==
    /\ message.stats.t = "object"
    /\ now - lastStatsUpdate > STATS_INTERVAL

\* a recording that keeps a frame only while the camera is known to stream
recordFrame_streaming(message, frameDataUrl) ==
    IF isRecordingRef /\ cameraStatus = STREAMING
    THEN Append(recordedFramesRef, frameDataUrl)
    ELSE recordedFramesRef

\* a recording that keeps only the frames whose histogram is displayed
recordFrame_displayed(message, frameDataUrl) ==
    IF isRecordingRef /\ histogramPasses(message)
    THEN Append(recordedFramesRef, frameDataUrl)
    ELSE recordedFramesRef

\* if (isRecordingRef.current) recordedFramesRef.current.push(frameDataUrl)
recordFrame(message, frameDataUrl) ==
    IF isRecordingRef THEN Append(recordedFramesRef, frameDataUrl)
    ELSE recordedFramesRef

(***************************************************************************)
(* ws.onmessage.  The handler stops where an exception is thrown: at       *)
(* JSON.parse for a malformed payload, at toUpperCase for a status that is *)
(* not a string.                                                           *)
(***************************************************************************)
\* the error text as it came, without the default
errorNotice_raw(message) == message.message

\* const errorMessage = message.message || 'An unknown error occurred on the server.'
errorNotice(message) ==
    OrElse(message.message, Str(<<"An unknown error occurred on the server.">>))

\* the last payload that could be decoded
lastRawMessage_decoded(payload) ==
    IF payload.json.wellFormed THEN payload.data ELSE lastRawMessageRef

\* lastRawMessageRef.current = event.data, before JSON.parse
lastRawMessage(payload) == payload.data

\* a count of the decoded messages only
countMessage_decoded(payload) ==
    IF payload.json.wellFormed THEN totalMessagesRef + 1 ELSE totalMessagesRef

\* totalMessagesRef.current++ is the first statement, before JSON.parse
countMessage(payload) == totalMessagesRef + 1

onmessage(payload) ==
    LET message == payload.json
        decoded == message.wellFormed
        isLog == decoded /\ message.type = TYPE_LOG
        isStatus == decoded /\ message.type = TYPE_STATUS_UPDATE
        isFrame == decoded /\ message.type = TYPE_IMAGE_FRAME
        isError == decoded /\ message.type = TYPE_ERROR
        isOther == decoded /\ ~(isLog \/ isStatus \/ isFrame \/ isError)
        statusDone == isStatus /\ ~statusThrows(message)
        info == message.camera_info
        hasInfo == (statusDone \/ isFrame) /\ info.t = "object"
        frameDataUrl == Str(<<"data:image/jpeg;base64,">> \o TemplateText(message.data))
        errorMessage == errorNotice(message)
        histogramDue == isFrame /\ histogramPasses(message)
        statsDue == isFrame /\ statsPasses(message)
    IN  /\ totalMessagesRef' = countMessage(payload)
        /\ lastRawMessageRef' = lastRawMessage(payload)
        /\ statusUpdatesRef' = IF isStatus THEN statusUpdatesRef + 1 ELSE statusUpdatesRef
        /\ framesReceivedRef' = IF isFrame THEN framesReceivedRef + 1 ELSE framesReceivedRef
        /\ cameraStatus' = IF statusDone THEN setCameraStatus(cameraStatus, message)
                           ELSE cameraStatus
        /\ logs' = IF isLog THEN addLog(logs, TemplateText(message.message), "server")
                   ELSE IF statusDone THEN addLog(logs, statusLog(message), "server")
                   ELSE IF isError
                   THEN addLog(logs, <<"ERROR from server: ">> \o TemplateText(errorMessage),
                               "server")
                   ELSE IF isOther
                   THEN addLog(logs, <<"Received unknown message type: ">>
                                     \o TemplateText(message.type), "server")
                   ELSE logs
        /\ cameraTemperature' =
              IF hasInfo /\ info.temperature # JsNull THEN info.temperature
              ELSE cameraTemperature
        /\ cameraIntegrationTime' =
              IF hasInfo /\ info.integration_time_ms # JsNull THEN info.integration_time_ms
              ELSE cameraIntegrationTime
        /\ targetFrameRate' =
              IF isFrame /\ hasInfo /\ info.frame_rate # Undefined THEN info.frame_rate
              ELSE targetFrameRate
        /\ imageSrc' = IF isFrame THEN latestFrame(message, frameDataUrl) ELSE imageSrc
        /\ imageSourceType' =
              IF isFrame THEN OrElse(message.source, Str(<<"simulated">>))
              ELSE imageSourceType
        /\ IF histogramDue
           THEN /\ histogramData' = message.histogram.a
                /\ lastHistogramUpdate' = now
           ELSE UNCHANGED <<histogramData, lastHistogramUpdate>>
        /\ imageStats' = IF statsDue THEN message.stats ELSE imageStats
        /\ lastStatsUpdate' = lastStatsUpdate
        /\ arrivals' = IF isFrame
                       THEN Append(arrivals, [at |-> now, payload |-> payload,
                                              histogram |-> histogramDue,
                                              stats |-> statsDue,
                                              active |-> isRecording,
                                              session |-> starts,
                                              window |-> interval.due])
                       ELSE arrivals
        /\ recordedFramesRef' = IF isFrame THEN recordFrame(message, frameDataUrl)
                                ELSE recordedFramesRef
        /\ frameCount' = IF isFrame THEN frameCount + 1 ELSE frameCount
        /\ serverError' = IF isError THEN errorMessage ELSE serverError

(***************************************************************************)
(* The state after the first render, before the effects have run.          *)
(***************************************************************************)
defaultDacVoltages == <<Num(1), Num(9), Num(20)>>    \* { 0: 0.1, 1: 0.9, 2: 2.0 }

Init ==
    /\ lastCommand = <<"app_init()">>
    /\ logs = <<[prefix |-> "", message |-> <<"Welcome to SWIR Camera Control GUI.">>]>>
    /\ cameraStatus = POWERED_OFF
    /\ wsStatus = "CONNECTING"
    /\ imageSrc = JsNull
    /\ imageSourceType = Str(<<"none">>)
    /\ justConnected = FALSE
    /\ serverError = JsNull
    /\ targetFrameRate = Num(300)
    /\ nucEnabled = TRUE
    /\ dacVoltages = defaultDacVoltages
    /\ histogramData = <<>>
    /\ imageStats = NullStats
    /\ cameraTemperature = JsNull
    /\ cameraIntegrationTime = JsNull
    /\ websocket = NoSocket
    /\ frameCount = 0
    /\ isRecordingRef = FALSE
    /\ recordedFramesRef = <<>>
    /\ lastHistogramUpdate = 0
    /\ lastStatsUpdate = 0
    /\ totalMessagesRef = 0
    /\ framesReceivedRef = 0
    /\ statusUpdatesRef = 0
    /\ lastRawMessageRef = Str(<<>>)
    /\ sockets = <<>>
    /\ timers = <<>>
    /\ now = 0
    /\ phase = "created"
    /\ stimuli = 0
    /\ frameRate = 0
    /\ diagnostics = [totalMessages |-> 0, framesReceived |-> 0, statusUpdates |-> 0,
                      lastRawMessage |-> Str(<<>>)]
    /\ isRecording = FALSE
    /\ recordedFrames = <<>>
    /\ recordingFrameCount = 0
    /\ interval = [active |-> FALSE, due |-> 0]
    /\ arrivals = <<>>
    /\ starts = 0

controls == <<nucEnabled, dacVoltages>>

(***************************************************************************)
(* The effects run: connect(), and the 1 Hz interval is set.               *)
(***************************************************************************)
Mount ==
    /\ phase = "created"
    /\ phase' = "mounted"
    /\ connect(logs, sockets)
    /\ interval' = [active |-> TRUE, due |-> now + TICK_PERIOD]
    /\ UNCHANGED <<lastCommand, cameraStatus, imageSourceType, justConnected, serverError,
                   telemetryState, controls, telemetryRefs, diagnosticRefs,
                   captureState, timers, now, stimuli, arrivals, starts>>

(***************************************************************************)
(* The component unmounts: the cleanup of the connection effect, and       *)
(* clearInterval.                                                          *)
(***************************************************************************)
Teardown ==
    /\ phase = "mounted"
    /\ phase' = "unmounted"
    /\ sockets' = cleanup(sockets)
    /\ interval' = [interval EXCEPT !.active = FALSE]
    /\ UNCHANGED <<appState, appRefs, timers, now, stimuli, arrivals, starts>>

(***************************************************************************)
(* The browser's side of a WebSocket.                                      *)
(***************************************************************************)
StimulusFits == stimuli < MaxStimuli

\* The open handshake succeeds.
WsOpen(s) ==
    /\ sockets[s].readyState = "CONNECTING"
    /\ onopen([sockets EXCEPT ![s].readyState = "OPEN"])
    /\ UNCHANGED <<cameraStatus, imageSourceType, telemetryState, controls, appRefs,
                   captureState, now, phase, interval, stimuli, arrivals, starts>>

\* The message event: the payload is handed to ws.onmessage.
Deliver(s, payload) ==
    /\ sockets[s].readyState = "OPEN"
    /\ onmessage(payload)
    /\ sockets' = [sockets EXCEPT ![s].delivered = Append(@, payload)]
    /\ stimuli' = stimuli + 1
    /\ UNCHANGED <<lastCommand, wsStatus, justConnected, controls, websocket,
                   isRecordingRef, captureState, timers, now, phase, interval, starts>>

\* A payload arrives on an open connection.
WsMessage(s, payload) ==
    /\ StimulusFits
    /\ Deliver(s, payload)

\* The server starts the closing handshake.
WsClosing(s) ==
    /\ sockets[s].readyState = "OPEN"
    /\ sockets' = [sockets EXCEPT ![s].readyState = "CLOSING"]
    /\ UNCHANGED <<appState, appRefs, timers, now, phase, interval, stimuli, arrivals, starts>>

\* The close event, preceded by the error event when the connection failed.
Closes(s, failed, code, reason) ==
    /\ sockets[s].readyState # "CLOSED"
    /\ ~failed => sockets[s].readyState \in {"OPEN", "CLOSING"}
    /\ failed => code = ABNORMAL_CLOSURE
    /\ stimuli' = IF sockets[s].onclose THEN stimuli + 1 ELSE stimuli
    /\ sockets' = [sockets EXCEPT ![s].readyState = "CLOSED", ![s].closedAt = now]
    /\ LET l == IF failed THEN onerror(logs) ELSE logs
       IN  IF sockets[s].onclose
           THEN onclose(code, reason, l)
           ELSE /\ logs' = l
                /\ UNCHANGED <<wsStatus, cameraStatus, imageSourceType, timers>>
    /\ UNCHANGED <<lastCommand, justConnected, serverError, telemetryState, controls,
                   appRefs, captureState, now, phase, interval, arrivals, starts>>

WsClose(s, failed, code, reason) ==
    /\ sockets[s].onclose => StimulusFits
    /\ Closes(s, failed, code, reason)

(***************************************************************************)
(* The timer queue.  A timer fires no earlier than its due time, and the   *)
(* timers fire in the order of their due times.                            *)
(***************************************************************************)
RemoveAt(q, i) == SubSeq(q, 1, i - 1) \o SubSeq(q, i + 1, Len(q))

IsNextTimer(i) ==
    /\ i \in DOMAIN timers
    /\ now >= timers[i].due
    /\ \A j \in DOMAIN timers :
          \/ timers[j].due > timers[i].due
          \/ timers[j].due = timers[i].due /\ j >= i

\* setTimeout(connect, 5000) fires
TimerConnect(i) ==
    /\ IsNextTimer(i)
    /\ timers[i].callback = "connect"
    /\ timers' = RemoveAt(timers, i)
    /\ connect(logs, sockets)
    /\ UNCHANGED <<lastCommand, cameraStatus, imageSourceType, justConnected, serverError,
                   telemetryState, controls, telemetryRefs, diagnosticRefs,
                   captureState, now, phase, interval, stimuli, arrivals, starts>>

\* setTimeout(() => setJustConnected(false), 800) fires
TimerClearJustConnected(i) ==
    /\ IsNextTimer(i)
    /\ timers[i].callback = "clearJustConnected"
    /\ timers' = RemoveAt(timers, i)
    /\ justConnected' = FALSE
    /\ UNCHANGED <<lastCommand, logs, cameraStatus, wsStatus, imageSourceType, serverError,
                   telemetryState, controls, appRefs, captureState, sockets, now, phase,
                   interval, stimuli, arrivals, starts>>

\* the timer of handlePower(true) fires: the default bias voltages are applied
TimerApplyBias(i) ==
    /\ IsNextTimer(i)
    /\ timers[i].callback = "applyBias"
    /\ timers' = RemoveAt(timers, i)
    /\ LET f1 == sendCommand(Facade, "set_dac_voltage",
                     <<(<<"channel", Num(0)>>), (<<"voltage", defaultDacVoltages[1]>>)>>)
           f2 == sendCommand(f1, "set_dac_voltage",
                     <<(<<"channel", Num(10)>>), (<<"voltage", defaultDacVoltages[2]>>)>>)
           f3 == sendCommand(f2, "set_dac_voltage",
                     <<(<<"channel", Num(20)>>), (<<"voltage", defaultDacVoltages[3]>>)>>)
       IN  SetFacade([f3 EXCEPT !.logs = addLog(f3.logs, <<"Applied default bias voltages.">>,
                                                "app")])
    /\ dacVoltages' = defaultDacVoltages
    /\ UNCHANGED <<cameraStatus, wsStatus, imageSourceType, justConnected, telemetryState,
                   nucEnabled, appRefs, captureState, now, phase, interval, stimuli,
                   arrivals, starts>>

\* performance.now() advances to the time the next timer is due.  Nothing
\* but the timers and the throttles reads the clock, so the times in between
\* are not told apart here.
NextDue == CHOOSE d \in {timers[i].due : i \in DOMAIN timers} :
              \A j \in DOMAIN timers : timers[j].due >= d

TimePasses ==
    /\ timers # <<>>
    /\ NextDue > now
    /\ now' = NextDue
    /\ UNCHANGED <<appState, appRefs, sockets, timers, phase, interval, stimuli, arrivals, starts>>

(***************************************************************************)
(* The 1 Hz interval.                                                      *)
(***************************************************************************)
EventFits == stimuli < MaxEvents

\* a sample that does not start a new window
sampleFrameRate_cumulative ==
    /\ frameRate' = frameCount
    /\ frameCount' = frameCount

\* setFrameRate(frameCount.current); frameCount.current = 0;
sampleFrameRate ==
    /\ frameRate' = frameCount
    /\ frameCount' = 0

\* a tick that leaves the snapshot as it is
setDiagnostics_skipped ==
    diagnostics' = diagnostics

\* setDiagnostics({...}) with the current values of the four refs
setDiagnostics ==
    diagnostics' = [totalMessages |-> totalMessagesRef,
                    framesReceived |-> framesReceivedRef,
                    statusUpdates |-> statusUpdatesRef,
                    lastRawMessage |-> lastRawMessageRef]

\* a report that does not test whether a recording is active
reportRecording_always ==
    recordingFrameCount' = Len(recordedFramesRef)

\* if (isRecordingRef.current) setRecordingFrameCount(recordedFramesRef.current.length)
reportRecording ==
    recordingFrameCount' = IF isRecordingRef THEN Len(recordedFramesRef)
                           ELSE recordingFrameCount

\* the callback of setInterval(..., 1000)
Tick ==
    /\ interval.active
    /\ now >= interval.due
    /\ EventFits
    /\ sampleFrameRate
    /\ setDiagnostics
    /\ reportRecording
    /\ interval' = [interval EXCEPT !.due = @ + TICK_PERIOD]
    /\ stimuli' = stimuli + 1
    /\ UNCHANGED <<lastCommand, logs, cameraStatus, wsStatus, imageSourceType,
                   justConnected, serverError, telemetryState, controls,
                   isRecording, recordedFrames, websocket, isRecordingRef,
                   recordedFramesRef, lastHistogramUpdate, lastStatsUpdate,
                   diagnosticRefs, sockets, timers, now, phase, arrivals, starts>>

\* performance.now() advances to the time the interval is due
TickDue ==
    /\ interval.active
    /\ interval.due > now
    /\ EventFits
    /\ now' = interval.due
    /\ UNCHANGED <<appState, appRefs, sockets, timers, phase, interval, stimuli, arrivals, starts>>

\* performance.now() advances by a few tens of milliseconds
ClockAdvances(d) ==
    /\ now + d <= MaxClock
    /\ now' = now + d
    /\ UNCHANGED <<appState, appRefs, sockets, timers, phase, interval, stimuli, arrivals, starts>>

(***************************************************************************)
(* Command handlers of the collaborators.  A button is pressed only while  *)
(* it is enabled; the toggles are never disabled.                          *)
(***************************************************************************)
isConnected == wsStatus = "CONNECTED"

handlePower(on) ==
    /\ phase = "mounted"
    /\ StimulusFits
    /\ isConnected
    /\ IF on THEN cameraStatus = POWERED_OFF ELSE cameraStatus # POWERED_OFF
    /\ SetFacade(sendCommand(Facade, IF on THEN "power_on" ELSE "power_off", <<>>))
    /\ timers' = IF on THEN Append(timers, Timer("applyBias", BIAS_DELAY)) ELSE timers
    /\ stimuli' = stimuli + 1
    /\ UNCHANGED <<cameraStatus, wsStatus, imageSourceType, justConnected, telemetryState,
                   controls, appRefs, captureState, now, phase, interval, arrivals, starts>>

\* <ToggleButton enabled={nucEnabled} onChange={handleNucToggle} /> calls
\* onChange(!enabled) when it is clicked.
handleNucToggle(enabled) ==
    /\ phase = "mounted"
    /\ enabled = ~nucEnabled
    /\ StimulusFits
    /\ nucEnabled' = enabled
    /\ SetFacade(sendCommand(Facade, "enable_nuc", <<(<<"enable", Bool(enabled)>>)>>))
    /\ stimuli' = stimuli + 1
    /\ UNCHANGED <<cameraStatus, wsStatus, imageSourceType, justConnected, telemetryState,
                   dacVoltages, appRefs, captureState, timers, now, phase, interval,
                   arrivals, starts>>

\* <ErrorPanel message={serverError} onClose={() => setServerError(null)} />:
\* the panel is rendered while serverError is truthy
ErrorPanelClose ==
    /\ phase = "mounted"
    /\ Truthy(serverError)
    /\ EventFits
    /\ serverError' = JsNull
    /\ stimuli' = stimuli + 1
    /\ UNCHANGED <<lastCommand, logs, cameraStatus, wsStatus, imageSourceType,
                   justConnected, telemetryState, controls, appRefs, captureState,
                   sockets, timers, now, phase, interval, arrivals, starts>>

\* a stop that does not copy the buffer into the state
stopRecording_unsynced ==
    /\ isRecordingRef' = FALSE
    /\ isRecording' = FALSE
    /\ recordedFrames' = recordedFrames
    /\ recordedFramesRef' = recordedFramesRef
    /\ logs' = addLog(logs, <<"Recording stopped. ">>
                            \o NatToString(Len(recordedFramesRef))
                            \o <<" frames captured.">>, "app")

\* the branch of handleToggleRecording that stops the recording
stopRecording ==
    /\ isRecordingRef' = FALSE
    /\ isRecording' = FALSE
    /\ recordedFrames' = recordedFramesRef
    /\ recordedFramesRef' = recordedFramesRef
    /\ logs' = addLog(logs, <<"Recording stopped. ">>
                            \o NatToString(Len(recordedFramesRef))
                            \o <<" frames captured.">>, "app")

\* a start that keeps the frames of the buffer
startRecording_keep ==
    /\ recordedFramesRef' = recordedFramesRef
    /\ recordedFrames' = <<>>
    /\ isRecordingRef' = TRUE
    /\ isRecording' = TRUE
    /\ logs' = addLog(logs, <<"Recording started...">>, "app")

\* the branch of handleToggleRecording that starts a recording
startRecording ==
    /\ recordedFramesRef' = <<>>
    /\ recordedFrames' = <<>>
    /\ isRecordingRef' = TRUE
    /\ isRecording' = TRUE
    /\ logs' = addLog(logs, <<"Recording started...">>, "app")

\* The recording button is enabled while connected and STREAMING.
handleToggleRecording ==
    /\ phase = "mounted"
    /\ isConnected
    /\ cameraStatus = STREAMING
    /\ ~isRecording => EventFits
    /\ IF isRecording THEN stopRecording ELSE startRecording
    /\ starts' = IF isRecording THEN starts ELSE starts + 1
    /\ stimuli' = IF isRecording THEN stimuli ELSE stimuli + 1
    /\ UNCHANGED <<lastCommand, cameraStatus, wsStatus, imageSourceType, justConnected,
                   serverError, telemetryState, controls, frameRate, diagnostics,
                   recordingFrameCount, websocket, frameCount, lastHistogramUpdate,
                   lastStatsUpdate, diagnosticRefs, sockets, timers, now, phase,
                   interval, arrivals>>

(***************************************************************************)
(* The payloads and close events the environment produces.                 *)
(***************************************************************************)
Chars_idle == <<"i", "d", "l", "e">>
Chars_Streaming == <<"S", "t", "r", "e", "a", "m", "i", "n", "g">>
Chars_booting == <<"b", "o", "o", "t", "i", "n", "g">>

StatusValues ==
    {Str(Chars_idle), Str(IDLE), Str(Chars_Streaming), Str(POWERED_OFF),
     Str(Chars_booting), Str(<<>>), Undefined, Num(50)}

StatusUpdate(status, info) ==
    [Message(TYPE_STATUS_UPDATE) EXCEPT !.status = status, !.camera_info = info]

StatusText(st) ==
    <<"{\"type\":\"status_update\",\"status\":">> \o JsonValue(st) \o <<"}">>

StatusPayload(st) ==
    [data |-> Str(StatusText(st)), json |-> StatusUpdate(st, NoInfo)]

StatusPayloads == {StatusPayload(st) : st \in StatusValues}

OtherPayloads ==
    {Payload("log", [Message(TYPE_LOG) EXCEPT !.message = Str(<<"Camera ready">>)]),
     Payload("error", [Message(TYPE_ERROR) EXCEPT !.message = Str(<<"Sensor fault">>)]),
     Payload("pong", Message(Str(<<"pong">>))),
     Payload("{not json", [Message(Undefined) EXCEPT !.wellFormed = FALSE])}

Payloads == StatusPayloads \cup OtherPayloads

\* The payloads of Spec: a valid status and a remote error.
LifecyclePayloads ==
    {StatusPayload(Str(Chars_idle)),
     Payload("error", [Message(TYPE_ERROR) EXCEPT !.message = Str(<<"Sensor fault">>)])}

CloseEvents ==
    {[failed |-> TRUE, code |-> ABNORMAL_CLOSURE, reason |-> Str(<<>>)],
     [failed |-> FALSE, code |-> 1000, reason |-> Str(<<"server shutdown">>)],
     [failed |-> FALSE, code |-> 1001, reason |-> Str(<<>>)]}

Next ==
    \/ Mount
    \/ Teardown
    \/ \E s \in DOMAIN sockets : WsOpen(s)
    \/ \E s \in DOMAIN sockets, payload \in LifecyclePayloads : WsMessage(s, payload)
    \/ \E s \in DOMAIN sockets : WsClosing(s)
    \/ \E s \in DOMAIN sockets, e \in CloseEvents : WsClose(s, e.failed, e.code, e.reason)
    \/ \E i \in DOMAIN timers : TimerConnect(i)
    \/ \E i \in DOMAIN timers : TimerClearJustConnected(i)
    \/ \E i \in DOMAIN timers : TimerApplyBias(i)
    \/ TimePasses
    \/ \E on \in BOOLEAN : handlePower(on)
    \/ \E enabled \in BOOLEAN : handleNucToggle(enabled)

Spec == Init /\ [][Next]_vars

(***************************************************************************)
(* SpecStatus: the dispatch of status updates.  The server sends every     *)
(* kind of status value over connections that open, fail, close and are    *)
(* replaced; no command is issued.                                         *)
(***************************************************************************)
NextStatus ==
    \/ Mount
    \/ Teardown
    \/ \E s \in DOMAIN sockets : WsOpen(s)
    \/ \E s \in DOMAIN sockets, payload \in StatusPayloads : WsMessage(s, payload)
    \/ \E s \in DOMAIN sockets, e \in CloseEvents : WsClose(s, e.failed, e.code, e.reason)
    \/ \E i \in DOMAIN timers : TimerConnect(i)
    \/ \E i \in DOMAIN timers : TimerClearJustConnected(i)
    \/ TimePasses

SpecStatus == Init /\ [][NextStatus]_vars

(***************************************************************************)
(* SpecInfo: the device-info records.  The server sends status updates and *)
(* image frames whose camera_info carries, omits or nulls the temperature  *)
(* and the integration time.                                               *)
(***************************************************************************)
Frame(data, info) ==
    [Message(TYPE_IMAGE_FRAME) EXCEPT !.data = Str(<<data>>), !.camera_info = info]

InfoPayloads ==
    {Payload("{\"type\":\"status_update\",\"status\":\"idle\",\"camera_info\":{}}",
             StatusUpdate(Str(Chars_idle), Info(Undefined, Undefined, Undefined))),
     Payload("{\"type\":\"status_update\",\"status\":\"idle\",\"camera_info\":{\"temperature\":21.5}}",
             StatusUpdate(Str(Chars_idle), Info(Num(215), Undefined, Undefined))),
     Payload("{\"type\":\"status_update\",\"status\":\"idle\",\"camera_info\":{\"temperature\":null}}",
             StatusUpdate(Str(Chars_idle), Info(JsNull, Undefined, Undefined))),
     Payload("{\"type\":\"status_update\",\"status\":\"idle\",\"camera_info\":{\"integration_time_ms\":5}}",
             StatusUpdate(Str(Chars_idle), Info(Undefined, Num(50), Undefined))),
     Payload("{\"type\":\"status_update\",\"status\":\"idle\",\"camera_info\":{\"integration_time_ms\":null}}",
             StatusUpdate(Str(Chars_idle), Info(Undefined, JsNull, Undefined))),
     Payload("{\"type\":\"status_update\",\"status\":\"idle\"}",
             StatusUpdate(Str(Chars_idle), NoInfo)),
     Payload("{\"type\":\"image_frame\",\"data\":\"AAAA\",\"camera_info\":{}}",
             Frame("AAAA", Info(Undefined, Undefined, Undefined))),
     Payload("{\"type\":\"image_frame\",\"data\":\"AAAA\",\"camera_info\":{\"temperature\":21.5,\"integration_time_ms\":5}}",
             Frame("AAAA", Info(Num(215), Num(50), Undefined))),
     Payload("{\"type\":\"image_frame\",\"data\":\"AAAA\",\"camera_info\":{\"temperature\":null,\"integration_time_ms\":null}}",
             Frame("AAAA", Info(JsNull, JsNull, Undefined)))}

\* A payload arrives on an open connection, within the budget of the
\* telemetry runs.
WsTelemetry(s, payload) ==
    /\ EventFits
    /\ Deliver(s, payload)

\* A connection closes, within the budget of the telemetry runs.
WsTelemetryClose(s, failed, code, reason) ==
    /\ sockets[s].onclose => EventFits
    /\ Closes(s, failed, code, reason)

NextInfo ==
    \/ Mount
    \/ \E s \in DOMAIN sockets : WsOpen(s)
    \/ \E s \in DOMAIN sockets, payload \in InfoPayloads : WsTelemetry(s, payload)

SpecInfo == Init /\ [][NextInfo]_vars

(***************************************************************************)
(* SpecThrottle: the display path of the image frames.  Frames with and    *)
(* without a histogram and stats arrive on the first connection, at times  *)
(* that are multiples of 50 ms.  SpecBurst: the same with a frame every    *)
(* 30 ms or faster.                                                        *)
(***************************************************************************)
FrameWith(data, histogram, stats) ==
    [Message(TYPE_IMAGE_FRAME) EXCEPT
        !.data = Str(<<data>>), !.histogram = histogram, !.stats = stats]

FrameA ==
    Payload("{\"type\":\"image_frame\",\"data\":\"AAAA\",\"histogram\":[1,2],\"stats\":{\"min\":0,\"max\":255,\"mean\":128}}",
            FrameWith("AAAA", Arr(<<Num(10), Num(20)>>), Stats(0, 2550, 1280)))

FrameB ==
    Payload("{\"type\":\"image_frame\",\"data\":\"BBBB\",\"histogram\":[3,4],\"stats\":{\"min\":1,\"max\":200,\"mean\":90}}",
            FrameWith("BBBB", Arr(<<Num(30), Num(40)>>), Stats(10, 2000, 900)))

FrameC ==
    Payload("{\"type\":\"image_frame\",\"data\":\"CCCC\"}",
            FrameWith("CCCC", Undefined, NoStats))

ThrottlePayloads == {FrameA, FrameB}

NextThrottle ==
    \/ Mount
    \/ \E s \in DOMAIN sockets : WsOpen(s)
    \/ \E s \in DOMAIN sockets, payload \in ThrottlePayloads : WsTelemetry(s, payload)
    \/ ClockAdvances(50)

SpecThrottle == Init /\ [][NextThrottle]_vars

NextBurst ==
    \/ Mount
    \/ \E s \in DOMAIN sockets : WsOpen(s)
    \/ \E s \in DOMAIN sockets : WsTelemetry(s, FrameA)
    \/ ClockAdvances(30)

SpecBurst == Init /\ [][NextBurst]_vars

(***************************************************************************)
(* SpecRecording: the recording of image frames.  The camera reports       *)
(* STREAMING, frames arrive, the user starts and stops recordings, the     *)
(* 1 Hz interval ticks, and the connection may fail.                       *)
(***************************************************************************)
StreamingPayload == StatusPayload(Str(Chars_Streaming))

RecordingPayloads == {StreamingPayload, FrameA, FrameB}

NextRecording ==
    \/ Mount
    \/ \E s \in DOMAIN sockets : WsOpen(s)
    \/ \E s \in DOMAIN sockets, payload \in RecordingPayloads : WsTelemetry(s, payload)
    \/ \E s \in DOMAIN sockets :
          WsTelemetryClose(s, TRUE, ABNORMAL_CLOSURE, Str(<<>>))
    \/ TickDue
    \/ Tick
    \/ handleToggleRecording

SpecRecording == Init /\ [][NextRecording]_vars

(***************************************************************************)
(* SpecDiagnostics: the diagnostic counters and the 1 Hz interval.         *)
(* Status updates, frames and malformed payloads arrive; the interval      *)
(* ticks; the connection fails and is replaced after the reconnect delay.  *)
(***************************************************************************)
MalformedPayload ==
    Payload("{not json", [Message(Undefined) EXCEPT !.wellFormed = FALSE])

DiagnosticPayloads == {StreamingPayload, FrameA, MalformedPayload}

NextDiagnostics ==
    \/ Mount
    \/ \E s \in DOMAIN sockets : WsOpen(s)
    \/ \E s \in DOMAIN sockets, payload \in DiagnosticPayloads : WsTelemetry(s, payload)
    \/ \E s \in DOMAIN sockets :
          WsTelemetryClose(s, TRUE, ABNORMAL_CLOSURE, Str(<<>>))
    \/ \E i \in DOMAIN timers : TimerConnect(i)
    \/ \E i \in DOMAIN timers : TimerClearJustConnected(i)
    \/ TimePasses
    \/ TickDue
    \/ Tick

SpecDiagnostics == Init /\ [][NextDiagnostics]_vars

(***************************************************************************)
(* SpecSnapshot: what the observers of the diagnostics see.  Payloads      *)
(* arrive, the interval ticks, the user toggles the NUC, and the           *)
(* connection may fail.                                                    *)
(***************************************************************************)
NextSnapshot ==
    \/ Mount
    \/ \E s \in DOMAIN sockets : WsOpen(s)
    \/ \E s \in DOMAIN sockets, payload \in DiagnosticPayloads : WsTelemetry(s, payload)
    \/ \E s \in DOMAIN sockets :
          WsTelemetryClose(s, TRUE, ABNORMAL_CLOSURE, Str(<<>>))
    \/ TickDue
    \/ Tick
    \/ \E enabled \in BOOLEAN : handleNucToggle(enabled)

SpecSnapshot == Init /\ [][NextSnapshot]_vars

(***************************************************************************)
(* SpecDisplay: the display of the frames.  Frames with a histogram and    *)
(* no source, and frames of the live source without a histogram, arrive    *)
(* 0, 50, 100, ... ms apart.                                               *)
(***************************************************************************)
FrameLive ==
    Payload("{\"type\":\"image_frame\",\"data\":\"DDDD\",\"source\":\"live\"}",
            [FrameWith("DDDD", Undefined, NoStats) EXCEPT !.source = Str(<<"live">>)])

DisplayPayloads == {FrameA, FrameLive}

NextDisplay ==
    \/ Mount
    \/ \E s \in DOMAIN sockets : WsOpen(s)
    \/ \E s \in DOMAIN sockets, payload \in DisplayPayloads : WsTelemetry(s, payload)
    \/ ClockAdvances(50)

SpecDisplay == Init /\ [][NextDisplay]_vars

(***************************************************************************)
(* SpecResume: a recording across a reconnect.  The camera reports         *)
(* STREAMING, the user starts and stops recordings, frames and a malformed *)
(* payload arrive, the connection fails and is replaced after the          *)
(* reconnect delay.                                                        *)
(***************************************************************************)
ResumePayloads == {StreamingPayload, FrameA, FrameB, MalformedPayload}

NextResume ==
    \/ Mount
    \/ \E s \in DOMAIN sockets : WsOpen(s)
    \/ \E s \in DOMAIN sockets, payload \in ResumePayloads : WsTelemetry(s, payload)
    \/ \E s \in DOMAIN sockets :
          WsTelemetryClose(s, TRUE, ABNORMAL_CLOSURE, Str(<<>>))
    \/ \E i \in DOMAIN timers : TimerConnect(i)
    \/ \E i \in DOMAIN timers : TimerClearJustConnected(i)
    \/ TimePasses
    \/ handleToggleRecording

SpecResume == Init /\ [][NextResume]_vars

(***************************************************************************)
(* SpecInvalid: status updates that do not name a device state.  They      *)
(* carry a device-info record; their status is an unknown word, a number,  *)
(* or missing.  A valid status update arrives between them.                *)
(***************************************************************************)
InvalidStatusPayloads ==
    {Payload("{\"type\":\"status_update\",\"status\":\"booting\",\"camera_info\":{\"temperature\":21.5,\"integration_time_ms\":5}}",
             StatusUpdate(Str(Chars_booting), Info(Num(215), Num(50), Undefined))),
     Payload("{\"type\":\"status_update\",\"status\":5,\"camera_info\":{\"temperature\":21.5,\"integration_time_ms\":5}}",
             StatusUpdate(Num(50), Info(Num(215), Num(50), Undefined))),
     Payload("{\"type\":\"status_update\",\"camera_info\":{\"temperature\":30,\"integration_time_ms\":8}}",
             StatusUpdate(Undefined, Info(Num(300), Num(80), Undefined)))}

InvalidPayloads == InvalidStatusPayloads \cup {StatusPayload(Str(Chars_idle))}

NextInvalid ==
    \/ Mount
    \/ \E s \in DOMAIN sockets : WsOpen(s)
    \/ \E s \in DOMAIN sockets, payload \in InvalidPayloads : WsTelemetry(s, payload)

SpecInvalid == Init /\ [][NextInvalid]_vars

(***************************************************************************)
(* SpecNotice: the error notice.  The server reports errors with a text,   *)
(* with an empty text and without a text; the user dismisses the notice    *)
(* and toggles the NUC; the connection fails and is replaced.              *)
(***************************************************************************)
ErrorPayloads ==
    {Payload("{\"type\":\"error\",\"message\":\"Sensor fault\"}",
             [Message(TYPE_ERROR) EXCEPT !.message = Str(<<"Sensor fault">>)]),
     Payload("{\"type\":\"error\",\"message\":\"\"}",
             [Message(TYPE_ERROR) EXCEPT !.message = Str(<<>>)]),
     Payload("{\"type\":\"error\"}", Message(TYPE_ERROR))}

NoticePayloads == ErrorPayloads \cup {StreamingPayload}

NextNotice ==
    \/ Mount
    \/ \E s \in DOMAIN sockets : WsOpen(s)
    \/ \E s \in DOMAIN sockets, payload \in NoticePayloads : WsTelemetry(s, payload)
    \/ \E s \in DOMAIN sockets :
          WsTelemetryClose(s, TRUE, ABNORMAL_CLOSURE, Str(<<>>))
    \/ \E i \in DOMAIN timers : TimerConnect(i)
    \/ \E i \in DOMAIN timers : TimerClearJustConnected(i)
    \/ TimePasses
    \/ \E enabled \in BOOLEAN : handleNucToggle(enabled)
    \/ ErrorPanelClose

SpecNotice == Init /\ [][NextNotice]_vars

(***************************************************************************)
(* LiveSpec: the connection lifecycle under the scheduling of the event    *)
(* loop.  Connections open, carry payloads and commands, fail and close,   *)
(* and the component may unmount; the clock advances, and a timer that is  *)
(* due runs.                                                               *)
(***************************************************************************)
NextLife ==
    \/ Mount
    \/ Teardown
    \/ \E s \in DOMAIN sockets : WsOpen(s)
    \/ \E s \in DOMAIN sockets, payload \in LifecyclePayloads : WsMessage(s, payload)
    \/ \E s \in DOMAIN sockets : WsClosing(s)
    \/ \E s \in DOMAIN sockets, e \in CloseEvents : WsClose(s, e.failed, e.code, e.reason)
    \/ \E i \in DOMAIN timers : TimerConnect(i)
    \/ \E i \in DOMAIN timers : TimerClearJustConnected(i)
    \/ TimePasses
    \/ \E enabled \in BOOLEAN : handleNucToggle(enabled)

TimerFires ==
    \E i \in DOMAIN timers : TimerConnect(i) \/ TimerClearJustConnected(i)

LiveSpec == Init /\ [][NextLife]_vars /\ WF_vars(TimePasses) /\ WF_vars(TimerFires)

(***************************************************************************)
(* Vocabulary of the properties.                                           *)
(***************************************************************************)
\* the text of { command: 'get_status', params: {} } on the wire
GetStatusText ==
    <<"{", "\"", "command", "\"", ":", "\"", "get_status", "\"", ",",
      "\"", "params", "\"", ":", "{", "}", "}">>

CannotSendLine == [prefix |-> "[App]", message |-> CannotSendNotice]

IsSuffix(a, b) ==
    Len(a) <= Len(b) /\ a = SubSeq(b, Len(b) - Len(a) + 1, Len(b))

\* some socket's transmitted texts differ after the step
WireChanged ==
    \/ \E s \in DOMAIN sockets : sockets'[s].sent # sockets[s].sent
    \/ \E s \in DOMAIN sockets' \ DOMAIN sockets : sockets'[s].sent # <<>>

\* the step is a call of a command handler
CommandStep ==
    \/ \E on \in BOOLEAN : handlePower(on)
    \/ \E enabled \in BOOLEAN : handleNucToggle(enabled)
    \/ \E i \in DOMAIN timers : TimerApplyBias(i)

\* the current connection is not open
NotOpen == websocket = NoSocket \/ sockets[websocket].readyState # "OPEN"

ReconnectTimers == {i \in DOMAIN timers : timers[i].callback = "connect"}

LiveSockets == {s \in DOMAIN sockets : sockets[s].readyState # "CLOSED"}

\* the step delivers a close event to an attached ws.onclose
HandledClose(s) ==
    /\ sockets[s].readyState # "CLOSED"
    /\ sockets'[s].readyState = "CLOSED"
    /\ sockets[s].onclose

\* the step creates a connection
Creates == Len(sockets') > Len(sockets)

\* C1: a command issued while the connection is not open is never
\* transmitted, in that step or in any later one: a refused call leaves the
\* transmitted texts of every socket as they are and appends the 'cannot
\* send' line to the log, and the texts change only in a command call made
\* while CONNECTED or in the onopen step.
C1_RefusedNeverSent ==
    [][/\ (CommandStep /\ NotOpen) =>
              /\ ~WireChanged
              /\ \E k \in DOMAIN logs' :
                    /\ logs'[k] = CannotSendLine
                    /\ IsSuffix(SubSeq(logs', 1, k - 1), logs)
       /\ WireChanged =>
              \/ CommandStep /\ wsStatus = "CONNECTED" /\ ~NotOpen
              \/ wsStatus = "CONNECTING" /\ wsStatus' = "CONNECTED"
      ]_vars

\* a call was refused, the client reconnected since, and the new connection
\* carries the initial status request only
C1_Witness ==
    /\ \E k \in DOMAIN logs : logs[k] = CannotSendLine
    /\ Len(sockets) >= 2
    /\ sockets[Len(sockets)].readyState = "OPEN"
    /\ sockets[Len(sockets)].sent = <<GetStatusText>>

\* C2: every transition from CONNECTING to CONNECTED transmits exactly one
\* get_status envelope on the connection that opened, in the same step, and
\* that envelope is the first text of the connection.
C2_GetStatusOnOpen ==
    /\ [](\A s \in DOMAIN sockets :
             sockets[s].sent # <<>> => sockets[s].sent[1] = GetStatusText)
    /\ [][(wsStatus # "CONNECTED" /\ wsStatus' = "CONNECTED") =>
             \E s \in DOMAIN sockets :
                /\ sockets[s].readyState = "CONNECTING"
                /\ sockets'[s].readyState = "OPEN"
                /\ sockets[s].sent = <<>>
                /\ sockets'[s].sent = <<GetStatusText>>
                /\ \A r \in DOMAIN sockets \ {s} : sockets'[r].sent = sockets[r].sent
          ]_vars

\* the second connection has opened and requested the status
C2_Witness ==
    /\ Len(sockets) >= 2
    /\ wsStatus = "CONNECTED"
    /\ sockets[1].sent = <<GetStatusText>>
    /\ sockets[1].readyState = "CLOSED"
    /\ sockets[2].sent = <<GetStatusText>>

\* C3: a close event handled by the client, whatever its code, schedules
\* exactly one reconnect, due RECONNECT_DELAY after it; while a reconnect is
\* pending the connection state is DISCONNECTED and no second reconnect is
\* pending; the reconnect runs no earlier than RECONNECT_DELAY after the
\* close event.
C3_OneReconnectAfterDelay ==
    /\ [](/\ Cardinality(ReconnectTimers) <= 1
          /\ ReconnectTimers # {} => wsStatus = "DISCONNECTED")
    /\ [][/\ \A s \in DOMAIN sockets :
                HandledClose(s) =>
                   /\ ReconnectTimers = {}
                   /\ \E i \in DOMAIN timers' :
                         /\ timers'[i] = [callback |-> "connect",
                                          due |-> now + RECONNECT_DELAY]
                         /\ {j \in DOMAIN timers' : timers'[j].callback = "connect"} = {i}
                   /\ wsStatus' = "DISCONNECTED"
          /\ (Creates /\ sockets # <<>>) =>
                /\ sockets[Len(sockets)].closedAt >= 0
                /\ now >= sockets[Len(sockets)].closedAt + RECONNECT_DELAY
                /\ ReconnectTimers # {}
                /\ {j \in DOMAIN timers' : timers'[j].callback = "connect"} = {}
          ]_vars

\* a reconnect is pending after a close with code 1001, which followed a
\* reconnect after an earlier close
C3_Witness ==
    /\ Len(sockets) = 2
    /\ sockets[1].closedAt >= 0
    /\ sockets[2].closedAt >= sockets[1].closedAt + RECONNECT_DELAY
    /\ Cardinality(ReconnectTimers) = 1
    /\ wsStatus = "DISCONNECTED"
    /\ logs[Len(logs)].message =
          <<"Connection closed unexpectedly (Code: ", "1", "0", "0", "1", ")",
            " Reconnecting in 5 seconds...">>

\* C4: at most one connection is live (connecting, open or closing), and a
\* connection is created only when the close event of every earlier one
\* has been dispatched.
C4_OneLiveConnection ==
    /\ [](Cardinality(LiveSockets) <= 1)
    /\ [][Creates =>
             /\ Len(sockets') = Len(sockets) + 1
             /\ \A s \in DOMAIN sockets :
                   sockets[s].readyState = "CLOSED" /\ sockets[s].closedAt >= 0
          ]_vars

\* the third connection is open and the two before it are closed
C4_Witness ==
    /\ Len(sockets) = 3
    /\ sockets[3].readyState = "OPEN"
    /\ sockets[1].readyState = "CLOSED"
    /\ sockets[2].readyState = "CLOSED"

\* C5: the connection state changes only from CONNECTING to CONNECTED,
\* from CONNECTED to DISCONNECTED, from CONNECTING to DISCONNECTED and from
\* DISCONNECTED to CONNECTING.
C5_ConnectionTransitions ==
    [][\/ wsStatus' = wsStatus
       \/ <<wsStatus, wsStatus'>> \in {<<"CONNECTING", "CONNECTED">>,
                                       <<"CONNECTED", "DISCONNECTED">>,
                                       <<"CONNECTING", "DISCONNECTED">>,
                                       <<"DISCONNECTED", "CONNECTING">>}
      ]_vars

\* the first connection opened and closed, the second failed while
\* connecting, the third is being opened: all four transitions were taken
C5_Witness ==
    /\ Len(sockets) = 3
    /\ sockets[1].sent # <<>>
    /\ sockets[1].readyState = "CLOSED"
    /\ sockets[2].sent = <<>>
    /\ sockets[2].readyState = "CLOSED"
    /\ wsStatus = "CONNECTING"

\* C6: while the component is mounted, DISCONNECTED is always followed by
\* CONNECTING (or by the teardown).
C6_ReconnectsForever ==
    (phase = "mounted" /\ wsStatus = "DISCONNECTED")
        ~> (wsStatus = "CONNECTING" \/ phase = "unmounted")

\* the fourth attempt is under way after three that failed while connecting
C6_Witness ==
    /\ Len(sockets) = 4
    /\ \A s \in 1..3 : sockets[s].readyState = "CLOSED" /\ sockets[s].sent = <<>>
    /\ wsStatus = "CONNECTING"
    /\ phase = "mounted"

\* C7: no connection is created after the teardown.
C7_NoConnectionAfterTeardown ==
    [][phase = "unmounted" => ~Creates]_vars

\* C8: the teardown of a connecting or open connection detaches its close
\* handler and then closes it; from then on no reconnect is scheduled, no
\* connection is created, and the connection state and the device state
\* keep their values, through the close event of that connection too.
C8_TeardownDetachesHandler ==
    [][/\ (/\ phase = "mounted" /\ phase' = "unmounted"
           /\ websocket # NoSocket
           /\ sockets[websocket].readyState \in {"CONNECTING", "OPEN"}) =>
              /\ ~sockets'[websocket].onclose
              /\ sockets'[websocket].readyState = "CLOSING"
              /\ wsStatus' = wsStatus /\ cameraStatus' = cameraStatus
              /\ timers' = timers
       /\ (/\ phase = "unmounted"
           /\ ReconnectTimers = {}
           /\ ~sockets[Len(sockets)].onclose) =>
              /\ wsStatus' = wsStatus
              /\ cameraStatus' = cameraStatus
              /\ ~Creates
              /\ {j \in DOMAIN timers' : timers'[j].callback = "connect"} = {}
              /\ ~sockets'[Len(sockets)].onclose
      ]_vars

\* an open connection with device state IDLE was torn down and its close
\* event has been dispatched
C8_Witness ==
    /\ phase = "unmounted"
    /\ Len(sockets) = 1
    /\ sockets[1].readyState = "CLOSED"
    /\ ~sockets[1].onclose
    /\ wsStatus = "CONNECTED"
    /\ cameraStatus = IDLE

\* a and b are the same text when the case of the letters is ignored
SameIgnoringCase(a, b) ==
    /\ Len(a) = Len(b)
    /\ \A i \in DOMAIN a :
          \/ a[i] = b[i]
          \/ \E k \in DOMAIN LowerLetters :
                {a[i], b[i]} = {LowerLetters[k], UpperLetters[k]}

\* the payload is a status_update whose status names a device state
NamesDeviceState(payload) ==
    /\ payload.json.wellFormed
    /\ payload.json.type = TYPE_STATUS_UPDATE
    /\ payload.json.status.t = "string"
    /\ \E name \in CameraStatus : SameIgnoringCase(payload.json.status.s, name)

\* the device state the most recent valid status of the payloads names
RECURSIVE LastValidStatus(_)
LastValidStatus(delivered) ==
    IF delivered = <<>> THEN POWERED_OFF
    ELSE IF NamesDeviceState(delivered[Len(delivered)])
    THEN CHOOSE name \in CameraStatus :
            SameIgnoringCase(delivered[Len(delivered)].json.status.s, name)
    ELSE LastValidStatus(SubSeq(delivered, 1, Len(delivered) - 1))

\* C9: the device state is always one of the three enumerated values: while
\* CONNECTED it is the one named, case-insensitively, by the most recent
\* valid status received over the current connection, POWERED_OFF when none
\* was received; otherwise it is POWERED_OFF.  A status_update whose status
\* is invalid, empty or missing therefore never changes it.
C9_LastValidStatus ==
    /\ cameraStatus \in CameraStatus
    /\ cameraStatus = IF wsStatus = "CONNECTED"
                      THEN LastValidStatus(sockets[websocket].delivered)
                      ELSE POWERED_OFF

\* a mixed-case 'Streaming' was applied and the unknown status after it was
\* ignored, on a connection made after a reconnect
C9_Witness ==
    /\ wsStatus = "CONNECTED"
    /\ websocket = 2
    /\ sockets[2].delivered = <<StatusPayload(Str(Chars_Streaming)),
                                StatusPayload(Str(Chars_booting))>>
    /\ cameraStatus = STREAMING

\* C10: before the teardown, the device state is POWERED_OFF whenever the
\* connection state is not CONNECTED.
C10_OffUnlessConnected ==
    phase # "unmounted" => (wsStatus # "CONNECTED" => cameraStatus = POWERED_OFF)

\* the connection that reported IDLE has closed
C10_Witness ==
    /\ phase = "mounted"
    /\ wsStatus = "DISCONNECTED"
    /\ cameraStatus = POWERED_OFF
    /\ \E s \in DOMAIN sockets :
          \E k \in DOMAIN sockets[s].delivered :
             sockets[s].delivered[k] = StatusPayload(Str(Chars_idle))

\* the payload that the step hands to ws.onmessage is p
Arrives(p) ==
    \E s \in DOMAIN sockets : sockets'[s].delivered = Append(sockets[s].delivered, p)

\* the stored value is unknown (null, or undefined)
Unknown(v) == v \in {JsNull, Undefined}

\* C11: for every device-info record carried by a status_update or an
\* image_frame, and for the temperature and the integration time each: a
\* field that is present with value null clears the stored value, and a
\* field that is absent leaves the stored value as it is.
C11_NullClearsAbsentKeeps ==
    [][\A p \in InfoPayloads :
          (Arrives(p) /\ p.json.camera_info.t = "object") =>
             /\ p.json.camera_info.temperature = JsNull =>
                   Unknown(cameraTemperature')
             /\ p.json.camera_info.temperature = Undefined =>
                   \/ cameraTemperature' = cameraTemperature
                   \/ Unknown(cameraTemperature) /\ Unknown(cameraTemperature')
             /\ p.json.camera_info.integration_time_ms = JsNull =>
                   Unknown(cameraIntegrationTime')
             /\ p.json.camera_info.integration_time_ms = Undefined =>
                   \/ cameraIntegrationTime' = cameraIntegrationTime
                   \/ Unknown(cameraIntegrationTime) /\ Unknown(cameraIntegrationTime')
      ]_vars

\* the frames whose histogram, whose stats, were forwarded to the observers
HistogramForwards == {i \in DOMAIN arrivals : arrivals[i].histogram}
StatsForwards == {i \in DOMAIN arrivals : arrivals[i].stats}

Latest(S) == CHOOSE i \in S : \A j \in S : j <= i

\* C12: histograms are forwarded at most once per 100 ms: any two forwarded
\* histograms arrived more than 100 ms apart, and the histogram the
\* observers see is that of the frame forwarded last, so that a histogram
\* that was dropped is never shown later.
C12_HistogramThrottle ==
    /\ \A i, j \in HistogramForwards :
          i < j => arrivals[j].at - arrivals[i].at > HISTOGRAM_INTERVAL
    /\ histogramData = IF HistogramForwards = {} THEN <<>>
                       ELSE arrivals[Latest(HistogramForwards)].payload.json.histogram.a

\* two histograms were forwarded, two frames with a histogram were dropped
\* in between, one of them exactly 100 ms after the first forward
C12_Witness ==
    /\ Len(arrivals) = 4
    /\ \A i \in 1..4 : Truthy(arrivals[i].payload.json.histogram)
    /\ arrivals[1].histogram /\ arrivals[4].histogram
    /\ ~arrivals[2].histogram /\ ~arrivals[3].histogram
    /\ arrivals[3].at - arrivals[1].at = HISTOGRAM_INTERVAL
    /\ arrivals[1].payload # arrivals[4].payload
    /\ histogramData = arrivals[4].payload.json.histogram.a

\* C13: stats are forwarded at most once per 100 ms: any two forwarded
\* stats arrived more than 100 ms apart.
C13_StatsThrottle ==
    \A i, j \in StatsForwards :
       i < j => arrivals[j].at - arrivals[i].at > STATS_INTERVAL

\* C14: of five frames with a histogram that arrive at 0, 30, 60, 90 and
\* 120 ms on a client that has forwarded no histogram, exactly the first
\* and the last are forwarded.
C14_ForwardsFirstAndLast ==
    (/\ Len(arrivals) = 5
     /\ [i \in 1..5 |-> arrivals[i].at] = <<0, 30, 60, 90, 120>>
     /\ \A i \in 1..5 : Truthy(arrivals[i].payload.json.histogram))
    => [i \in 1..5 |-> arrivals[i].histogram] = <<TRUE, FALSE, FALSE, FALSE, TRUE>>

\* the data URL under which the frame of a payload is shown and recorded
FrameUrl(payload) == Str(<<"data:image/jpeg;base64,">> \o payload.json.data.s)

\* the frames that arrived in the current recording session while the
\* interface showed the recording in progress
SessionArrivals == SelectSeq(arrivals, LAMBDA a : a.active /\ a.session = starts)

SessionFrames == [i \in 1..Len(SessionArrivals) |-> FrameUrl(SessionArrivals[i].payload)]

\* the step starts, stops, a recording
Starts == ~isRecording /\ isRecording'
Stops == isRecording /\ ~isRecording'

\* C15: the recording buffer holds exactly the frames that arrived while
\* the recording was active, in arrival order, whether or not their
\* histogram and stats were forwarded; frames that arrive while no
\* recording is active are not in it.
C15_RecordingComplete ==
    recordedFramesRef = SessionFrames

\* a frame arrived before the recording started and two during it; the two
\* are in the buffer in order although both their histograms were dropped
C15_Witness ==
    /\ isRecording
    /\ Len(arrivals) = 3
    /\ ~arrivals[1].active /\ arrivals[2].active /\ arrivals[3].active
    /\ arrivals[2].payload = FrameB /\ arrivals[3].payload = FrameA
    /\ ~arrivals[2].histogram /\ ~arrivals[3].histogram
    /\ recordedFramesRef = <<FrameUrl(FrameB), FrameUrl(FrameA)>>

\* C16: a start empties the buffer and the exposed session, the exposed
\* session stays empty while the recording is active, and a recording that
\* is stopped with no frame since its start leaves an empty session.
C16_StartDiscards ==
    /\ [](/\ isRecording => recordedFrames = <<>>
          /\ (~isRecording /\ SessionArrivals = <<>>) => recordedFrames = <<>>)
    /\ [][Starts => (recordedFramesRef' = <<>> /\ recordedFrames' = <<>>)]_vars

\* a session with a frame was stopped, and the next recording has started
\* with an empty buffer and an empty session
C16_Witness ==
    /\ starts = 2
    /\ isRecording
    /\ \E i \in DOMAIN arrivals : arrivals[i].active /\ arrivals[i].session = 1
    /\ recordedFramesRef = <<>>
    /\ recordedFrames = <<>>

\* start, stop, start, stop with no frame in between: the session is empty
C16_WitnessTwice ==
    /\ starts = 2
    /\ ~isRecording
    /\ arrivals = <<>>
    /\ recordedFrames = <<>>
    /\ logs[Len(logs)].message = <<"Recording stopped. ", "0", " frames captured.">>

\* C17: a stop exposes the buffer as it is at that moment; until the next
\* start no step changes the exposed session or the buffer; while the
\* recording is active the buffer changes only when a frame arrives, by one
\* frame appended at its end.
C17_FrozenAfterStop ==
    [][/\ Stops => (recordedFrames' = recordedFramesRef
                    /\ recordedFramesRef' = recordedFramesRef)
       /\ (~isRecording /\ ~isRecording') =>
              (recordedFrames' = recordedFrames /\ recordedFramesRef' = recordedFramesRef)
       /\ (isRecording /\ isRecording' /\ recordedFramesRef' # recordedFramesRef) =>
              /\ Len(arrivals') = Len(arrivals) + 1
              /\ recordedFramesRef' =
                    Append(recordedFramesRef, FrameUrl(arrivals'[Len(arrivals')].payload))
      ]_vars

\* a session of one frame was stopped; a frame that arrived later is not in
\* it
C17_Witness ==
    /\ ~isRecording
    /\ starts = 1
    /\ Len(arrivals) = 2
    /\ arrivals[1].active /\ ~arrivals[2].active
    /\ recordedFrames = <<FrameUrl(arrivals[1].payload)>>
    /\ recordedFramesRef = recordedFrames

\* the number of payloads of the connections so far that satisfy Kind
RECURSIVE Received(_, _)
Received(Kind(_), s) ==
    IF s = 0 THEN 0
    ELSE Received(Kind, s - 1)
         + Cardinality({i \in DOMAIN sockets[s].delivered : Kind(sockets[s].delivered[i])})

AnyPayload(p) == TRUE
IsImageFrame(p) == p.json.wellFormed /\ p.json.type = TYPE_IMAGE_FRAME
IsStatusUpdate(p) == p.json.wellFormed /\ p.json.type = TYPE_STATUS_UPDATE

\* C18: the diagnostic counters never decrease, also across a disconnect
\* and a reconnect, and at every moment totalMessages is the number of
\* payloads received, framesReceived the number of image_frame messages and
\* statusUpdates the number of status_update messages.
C18_CountersCount ==
    /\ [](/\ totalMessagesRef = Received(AnyPayload, Len(sockets))
          /\ framesReceivedRef = Received(IsImageFrame, Len(sockets))
          /\ statusUpdatesRef = Received(IsStatusUpdate, Len(sockets)))
    /\ [][/\ totalMessagesRef' >= totalMessagesRef
          /\ framesReceivedRef' >= framesReceivedRef
          /\ statusUpdatesRef' >= statusUpdatesRef
          /\ diagnostics'.totalMessages >= diagnostics.totalMessages
          /\ diagnostics'.framesReceived >= diagnostics.framesReceived
          /\ diagnostics'.statusUpdates >= diagnostics.statusUpdates]_vars

\* payloads arrived on a connection that failed and on the connection that
\* replaced it, one of them malformed; the counters count all of them
C18_Witness ==
    /\ Len(sockets) = 2
    /\ sockets[1].delivered # <<>>
    /\ sockets[2].delivered # <<>>
    /\ \E s \in DOMAIN sockets : \E i \in DOMAIN sockets[s].delivered :
          ~sockets[s].delivered[i].json.wellFormed
    /\ totalMessagesRef = 3
    /\ framesReceivedRef = 1
    /\ statusUpdatesRef = 1

\* the step is a tick of the interval
TickStep == interval.active /\ interval'.due = interval.due + TICK_PERIOD

\* C19: the diagnostics snapshot changes only in a tick of the 1 Hz
\* interval, and right after a tick it equals the live counters and the
\* last raw payload.
C19_SnapshotOnTick ==
    [][/\ diagnostics' # diagnostics => TickStep
       /\ TickStep => /\ diagnostics'.totalMessages = totalMessagesRef'
                      /\ diagnostics'.framesReceived = framesReceivedRef'
                      /\ diagnostics'.statusUpdates = statusUpdatesRef'
                      /\ diagnostics'.lastRawMessage = lastRawMessageRef'
      ]_vars

\* a tick exposed one payload; the snapshot is as that tick left it although
\* a second payload has arrived, the NUC was switched off and the connection
\* has failed
C19_Witness ==
    /\ diagnostics.totalMessages = 1
    /\ totalMessagesRef = 2
    /\ diagnostics.lastRawMessage # lastRawMessageRef
    /\ ~nucEnabled
    /\ wsStatus = "DISCONNECTED"

\* the frames that arrived in the window that ends at the tick due at due
FramesInWindow(due) ==
    Cardinality({i \in DOMAIN arrivals : arrivals[i].window = due})

\* C20: a tick sets the frame rate to the number of image frames that
\* arrived since the previous tick and resets the count; the count is
\* always the number of frames of the current window.
C20_FrameRateWindow ==
    /\ [](interval.active => frameCount = FramesInWindow(interval.due))
    /\ [][TickStep => /\ frameRate' = FramesInWindow(interval.due)
                      /\ frameCount' = 0]_vars

\* two frames arrived before the first tick, which reported 2, and one
\* frame after it
C20_Witness ==
    /\ interval.due = 2 * TICK_PERIOD
    /\ Len(arrivals) = 3
    /\ frameRate = 2
    /\ frameCount = 1

\* two frames arrived before the first tick and none before the second,
\* which reported 0
C20_WitnessIdle ==
    /\ interval.due = 3 * TICK_PERIOD
    /\ Len(arrivals) = 2
    /\ frameRate = 0
    /\ frameCount = 0

\* C21: after every call of sendCommand the error notice is empty.
C21_CommandClearsError ==
    [][CommandStep => serverError' = JsNull]_vars

\* the text that records the call sendCommand(command, params)
CommandText(command, params) ==
    <<command, "(">> \o (IF params = <<>> THEN <<>> ELSE JsonObject(params)) \o <<")">>

\* C23: after every call sendCommand(name, params) the last command is
\* name followed by the serialized params in parentheses, and by empty
\* parentheses when params has no key.
C23_LastCommandRecorded ==
    [][/\ \A on \in BOOLEAN :
             handlePower(on) =>
                lastCommand' = CommandText(IF on THEN "power_on" ELSE "power_off", <<>>)
       /\ \A enabled \in BOOLEAN :
             handleNucToggle(enabled) =>
                lastCommand' = CommandText("enable_nuc", <<(<<"enable", Bool(enabled)>>)>>)
      ]_vars

DefaultErrorText == Str(<<"An unknown error occurred on the server.">>)

\* the step delivers an error message
ErrorArrives == \E p \in ErrorPayloads : Arrives(p)

\* C22: an error message sets the error notice to its text, or to the
\* default text when the text is empty or missing, and leaves the
\* connection state and the device state as they are; a notice that is set
\* changes only when it is dismissed, when another error arrives, or when a
\* command is transmitted.
C22_ErrorNotice ==
    [][/\ \A p \in ErrorPayloads :
             Arrives(p) =>
                /\ serverError' = IF p.json.message = Str(<<"Sensor fault">>)
                                  THEN p.json.message ELSE DefaultErrorText
                /\ wsStatus' = wsStatus
                /\ cameraStatus' = cameraStatus
       /\ (serverError # JsNull /\ serverError' # serverError) =>
             \/ ErrorPanelClose
             \/ ErrorArrives
             \/ WireChanged /\ serverError' = JsNull
      ]_vars

\* the camera streams, an error with a text arrived and then an error
\* without one: the notice shows the default text, the states are as before
C22_Witness ==
    /\ Len(sockets) = 1
    /\ Len(sockets[1].delivered) = 3
    /\ sockets[1].delivered[1] = StreamingPayload
    /\ sockets[1].delivered[2].json.message = Str(<<"Sensor fault">>)
    /\ sockets[1].delivered[3].json.message = Undefined
    /\ serverError = DefaultErrorText
    /\ cameraStatus = STREAMING
    /\ wsStatus = "CONNECTED"

\* C24: right after every image_frame message the displayed frame is the
\* data URL of that message and the source kind is the message's source,
\* or 'simulated' when it has none, whether or not the histogram of the
\* message was forwarded.
C24_EveryFrameDisplayed ==
    [][\A p \in DisplayPayloads :
          Arrives(p) =>
             /\ imageSrc' = FrameUrl(p)
             /\ imageSourceType' = IF p = FrameLive THEN Str(<<"live">>)
                                   ELSE Str(<<"simulated">>)]_vars

\* a live frame and then a frame without a source whose histogram was
\* dropped: the second one is displayed as a simulated frame
C24_Witness ==
    /\ Len(arrivals) = 2
    /\ arrivals[1].payload = FrameLive
    /\ arrivals[2].payload = FrameA
    /\ ~arrivals[2].histogram
    /\ imageSrc = FrameUrl(FrameA)
    /\ imageSourceType = Str(<<"simulated">>)

\* the step handles an image frame
FrameStep == Len(arrivals') = Len(arrivals) + 1

\* C25: a histogram is forwarded only when more than 100 ms have passed
\* since the last forward, so one that arrives exactly 100 ms after it is
\* dropped; the timestamp of the last forward changes only when a histogram
\* is forwarded, and then to the time of that frame.
C25_StrictBoundary ==
    [][/\ FrameStep =>
             LET a == arrivals'[Len(arrivals')]
             IN  /\ a.histogram =>
                       /\ now - lastHistogramUpdate > HISTOGRAM_INTERVAL
                       /\ lastHistogramUpdate' = now
                 /\ ~a.histogram =>
                       /\ lastHistogramUpdate' = lastHistogramUpdate
                       /\ histogramData' = histogramData
                 /\ (Truthy(a.payload.json.histogram)
                     /\ now - lastHistogramUpdate = HISTOGRAM_INTERVAL) => ~a.histogram
       /\ ~FrameStep => lastHistogramUpdate' = lastHistogramUpdate
      ]_vars

\* a histogram was forwarded at 150 ms; a frame without a histogram at
\* 200 ms and a histogram at 250 ms, exactly 100 ms after the forward, have
\* left the timestamp at 150
C25_Witness ==
    /\ Len(arrivals) = 3
    /\ arrivals[1].histogram /\ arrivals[1].at = 150
    /\ arrivals[2].payload = FrameLive /\ arrivals[2].at = 200
    /\ arrivals[3].payload = FrameA /\ arrivals[3].at = 250
    /\ ~arrivals[3].histogram
    /\ lastHistogramUpdate = 150
    /\ now = 250

\* C26: a tick that fires while a recording is active sets the reported
\* recording frame count to the length of the buffer; a tick that fires
\* while no recording is active leaves the reported count as it is.
C26_TickReportsLength ==
    [][TickStep =>
          recordingFrameCount' = IF isRecordingRef THEN Len(recordedFramesRef')
                                 ELSE recordingFrameCount]_vars

\* two frames were recorded and the first tick has reported 2
C26_Witness ==
    /\ isRecording
    /\ interval.due = 2 * TICK_PERIOD
    /\ Len(recordedFramesRef) = 2
    /\ recordingFrameCount = 2

\* a recording of one frame was stopped before the first tick, which left
\* the reported count at 0
C26_WitnessInactive ==
    /\ ~isRecording
    /\ interval.due = 2 * TICK_PERIOD
    /\ Len(recordedFrames) = 1
    /\ recordingFrameCount = 0

\* C28: while a recording is active the reported recording frame count is
\* never more than the number of frames in the buffer of the session.
C28_ReportedWithinBuffer ==
    isRecording => recordingFrameCount <= Len(recordedFramesRef)

\* the ready states of the connections
ReadyStates == [s \in DOMAIN sockets |-> sockets[s].readyState]

\* C27: a payload that cannot be decoded leaves the connection, the
\* connection state, the device state, the recording buffer, framesReceived
\* and statusUpdates as they are and schedules no reconnect; totalMessages
\* is incremented and lastRawMessage is that payload; the payloads that
\* arrive later are handled as always.
C27_MalformedIsDropped ==
    [][/\ Arrives(MalformedPayload) =>
             /\ wsStatus' = wsStatus
             /\ cameraStatus' = cameraStatus
             /\ recordedFramesRef' = recordedFramesRef
             /\ framesReceivedRef' = framesReceivedRef
             /\ statusUpdatesRef' = statusUpdatesRef
             /\ timers' = timers
             /\ websocket' = websocket
             /\ ReadyStates' = ReadyStates
             /\ totalMessagesRef' = totalMessagesRef + 1
             /\ lastRawMessageRef' = MalformedPayload.data
       /\ Arrives(StreamingPayload) =>
             /\ cameraStatus' = STREAMING
             /\ statusUpdatesRef' = statusUpdatesRef + 1
       /\ \A p \in {FrameA, FrameB} :
             Arrives(p) =>
                /\ imageSrc' = FrameUrl(p)
                /\ framesReceivedRef' = framesReceivedRef + 1
                /\ isRecordingRef => recordedFramesRef' = Append(recordedFramesRef, FrameUrl(p))
      ]_vars

\* a malformed payload arrived during a recording, between two frames; both
\* frames are recorded and the connection is as it was
C27_Witness ==
    /\ Len(sockets) = 1
    /\ sockets[1].readyState = "OPEN"
    /\ sockets[1].delivered = <<StreamingPayload, FrameA, MalformedPayload, FrameB>>
    /\ wsStatus = "CONNECTED"
    /\ cameraStatus = STREAMING
    /\ ReconnectTimers = {}
    /\ recordedFramesRef = <<FrameUrl(FrameA), FrameUrl(FrameB)>>
    /\ totalMessagesRef = 4
    /\ framesReceivedRef = 2
    /\ statusUpdatesRef = 1

\* the step is a close event, the creation of a connection, or its opening
ConnectionStep ==
    \/ \E s \in DOMAIN sockets : HandledClose(s)
    \/ Creates
    \/ wsStatus' # wsStatus

\* C29: a close event, the reconnect and the opening of the new connection
\* leave the recording flag and the buffered frames as they are, and a
\* frame that arrives while the flag is set is appended to the buffer,
\* on the new connection as on the old one.
C29_RecordingSurvivesClose ==
    [][/\ ConnectionStep =>
             /\ isRecording' = isRecording
             /\ isRecordingRef' = isRecordingRef
             /\ recordedFramesRef' = recordedFramesRef
             /\ recordedFrames' = recordedFrames
       /\ \A p \in {FrameA, FrameB} :
             (Arrives(p) /\ isRecordingRef) =>
                recordedFramesRef' = Append(recordedFramesRef, FrameUrl(p))
      ]_vars

\* a frame was recorded, the connection failed and was replaced, and a
\* frame of the new connection is in the same session after the first
C29_Witness ==
    /\ Len(sockets) = 2
    /\ starts = 1
    /\ isRecording
    /\ sockets[1].readyState = "CLOSED"
    /\ sockets[2].delivered = <<FrameB>>
    /\ recordedFramesRef = <<FrameUrl(FrameA), FrameUrl(FrameB)>>

\* C30: a status_update whose status is invalid leaves the device state as
\* it is, and the temperature and the integration time of its device-info
\* record are stored and statusUpdates is incremented all the same.
C30_InvalidStatusKeepsInfo ==
    [][\A p \in InvalidStatusPayloads :
          Arrives(p) =>
             /\ cameraStatus' = cameraStatus
             /\ cameraTemperature' = p.json.camera_info.temperature
             /\ cameraIntegrationTime' = p.json.camera_info.integration_time_ms
             /\ statusUpdatesRef' = statusUpdatesRef + 1]_vars

=============================================================================
